---------------------------- MODULE Spec2Model ----------------------------
(***************************************************************************)
(* A model of src/app.py (foxEPUB): the Russian syllable splitter, the     *)
(* bionic splitter, their lru_cache wrappers, the text annotator           *)
(* build_nodes_for_text, the document rewriter process_html_bytes and the  *)
(* archive rewriter process_epub.                                          *)
(*                                                                         *)
(* Characters are atoms written as ASCII transliterations of the Cyrillic  *)
(* letters ("a" is U+0430, "A" is U+0410, "soft" is the soft sign, "hard"  *)
(* the hard sign, "zh", "ch", "sh", "shch", "yo", "eh", "yu", "ya" the     *)
(* letters usually romanised so).  A word or a text run is a sequence of   *)
(* such atoms.  Positions inside a word are 0-based as in the source;      *)
(* Slice(w, a, b) is the Python slice w[a:b].                              *)
(***************************************************************************)
EXTENDS Integers, Sequences, FiniteSets, TLC

VARIABLES
    \* split_russian_syllables / first_syllable_parts / bionic_parts, one call
    word, segPc, loopI, start, syllables, rawBoundary, clampFired, fsOut, bpOut,
    \* the two lru_cache stores and the last call made through them
    cache, lastCall, evicted,
    \* build_nodes_for_text, one call
    text, mode, textPc, pos, nodes,
    \* process_html_bytes: the parsed document, the position in the function,
    \* the lists the two loops iterate over, and what each run did
    hasBody, hasHead, headStyles, otherStyles, inputStyles, tree, nextId,
    docMode, htmlPc, run, paragraphs, pIdx, textNodes, tIdx,
    produced, annotated, runLog,
    \* process_epub and convert: the uploaded archive, the loop over its
    \* entries, the output archive, and how the call and the request ended
    structValid, entries, corruptAt, corruptKind, zipPc, idx, out, raised,
    returned, response

segVars == <<word, segPc, loopI, start, syllables, rawBoundary, clampFired, fsOut, bpOut>>
cacheVars == <<cache, lastCall, evicted>>
textVars == <<text, mode, textPc, pos, nodes>>

docVars == <<hasBody, hasHead, headStyles, otherStyles, inputStyles, tree, nextId,
             docMode, htmlPc, run, paragraphs, pIdx, textNodes, tIdx,
             produced, annotated, runLog>>

zipVars == <<structValid, entries, corruptAt, corruptKind, zipPc, idx, out, raised,
             returned, response>>

vars == <<segVars, cacheVars, textVars, docVars, zipVars>>

notSeg == <<cacheVars, textVars, docVars, zipVars>>
notCache == <<segVars, textVars, docVars, zipVars>>
notText == <<segVars, cacheVars, docVars, zipVars>>
notDoc == <<segVars, cacheVars, textVars, zipVars>>
notZip == <<segVars, cacheVars, textVars, docVars>>

-----------------------------------------------------------------------------
(* Bounds of the model *)

\* longest word drawn over SegAlphabet as an input of the segmenters
MaxWordLen == 5

\* longest word drawn over LongAlphabet (reaches every bucket of bionic_parts)
MaxLongLen == 12

\* longest text run given to build_nodes_for_text
MaxTextLen == 4

\* most blocks in the body of an input document
MaxBlocks == 2

\* most blocks in the body of a document whose head is varied
MaxStyleBlocks == 1

\* most entries in an input archive
MaxEntries == 2

\* times process_html_bytes is run on a document, each run on the last one's output
MaxRuns == 2

\* entries one lru_cache holds before it evicts (the source's maxsize is 50000)
CacheCapacity == 2

-----------------------------------------------------------------------------
(* The alphabet: src/app.py lines 13-24 *)

LowerLetters ==
    << "a", "b", "v", "g", "d", "e", "yo", "zh", "z", "i", "j", "k", "l", "m",
       "n", "o", "p", "r", "s", "t", "u", "f", "h", "c", "ch", "sh", "shch",
       "hard", "y", "soft", "eh", "yu", "ya" >>

UpperLetters ==
    << "A", "B", "V", "G", "D", "E", "YO", "ZH", "Z", "I", "J", "K", "L", "M",
       "N", "O", "P", "R", "S", "T", "U", "F", "H", "C", "CH", "SH", "SHCH",
       "HARD", "Y", "SOFT", "EH", "YU", "YA" >>

Range(s) == { s[k] : k \in 1..Len(s) }

\* str.lower() on one character
LowerChar(ch) ==
    IF \E k \in 1..Len(UpperLetters) : UpperLetters[k] = ch
    THEN LowerLetters[CHOOSE k \in 1..Len(UpperLetters) : UpperLetters[k] = ch]
    ELSE ch

\* str.lower() on a string
Lower(s) == [k \in 1..Len(s) |-> LowerChar(s[k])]

VOWELS ==
    { "a", "e", "yo", "i", "o", "u", "y", "eh", "yu", "ya",
      "A", "E", "YO", "I", "O", "U", "Y", "EH", "YU", "YA" }

CONSONANTS ==
    { "b", "v", "g", "d", "zh", "z", "j", "k", "l", "m", "n", "p", "r", "s",
      "t", "f", "h", "c", "ch", "sh", "shch", "soft", "hard",
      "B", "V", "G", "D", "ZH", "Z", "J", "K", "L", "M", "N", "P", "R", "S",
      "T", "F", "H", "C", "CH", "SH", "SHCH", "SOFT", "HARD" }

ALLOWED_ONSET_2 ==
    { <<"b","l">>, <<"b","r">>, <<"v","l">>, <<"v","r">>, <<"g","l">>,
      <<"g","r">>, <<"d","l">>, <<"d","r">>, <<"zh","r">>, <<"z","l">>,
      <<"z","r">>, <<"k","l">>, <<"k","r">>, <<"p","l">>, <<"p","r">>,
      <<"s","l">>, <<"s","m">>, <<"s","n">>, <<"s","p">>, <<"s","t">>,
      <<"s","k">>, <<"s","r">>, <<"s","f">>, <<"s","h">>, <<"s","v">>,
      <<"sh","l">>, <<"sh","r">>, <<"t","l">>, <<"t","r">>, <<"f","l">>,
      <<"f","r">>, <<"h","l">>, <<"h","r">>, <<"ch","r">>, <<"v","t">>,
      <<"g","n">>, <<"m","n">>, <<"m","l">>, <<"m","r">>, <<"n","l">>,
      <<"n","r">> }

ALLOWED_ONSET_3 ==
    { <<"s","t","r">>, <<"s","k","r">>, <<"s","p","r">>, <<"s","k","l">>,
      <<"v","s","t","r">>, <<"v","s","p">> }

\* the character class of WORD_RE (line 24): the 33 letters in both cases
WordChars == Range(LowerLetters) \cup Range(UpperLetters)

_is_vowel(ch) == ch \in VOWELS

\* w[a:b] for 0 <= a, b <= len(w)
Slice(w, a, b) == SubSeq(w, a + 1, b)

\* w[-n:] for 1 <= n
Suffix(w, n) == IF n >= Len(w) THEN w ELSE SubSeq(w, Len(w) - n + 1, Len(w))

-----------------------------------------------------------------------------
(* split_russian_syllables: src/app.py lines 37-75 *)

\* vowel_positions, 0-based and ascending (line 38)
RECURSIVE VowelPositionsFrom(_, _)
VowelPositionsFrom(w, k) ==
    IF k > Len(w) THEN <<>>
    ELSE (IF _is_vowel(w[k]) THEN <<k - 1>> ELSE <<>>) \o VowelPositionsFrom(w, k + 1)

vowel_positions(w) == VowelPositionsFrom(w, 1)

\* a plausible slip: the doubled-consonant rule keeps the whole cluster and one more
OnsetLenDoubleOff(cluster) ==
    LET lower_cluster == Lower(cluster) IN
    IF Len(cluster) >= 2 /\ lower_cluster[1] = lower_cluster[2]
        THEN Len(cluster) + 1
    ELSE IF lower_cluster[Len(lower_cluster)] \in {"soft", "hard"}
        THEN 1
    ELSE IF Len(lower_cluster) >= 3 /\ Suffix(lower_cluster, 3) \in ALLOWED_ONSET_3
        THEN 3
    ELSE IF Len(lower_cluster) >= 2 /\ Suffix(lower_cluster, 2) \in ALLOWED_ONSET_2
        THEN 2
    ELSE 1

\* onset_len of a non-empty cluster (lines 56-66)
OnsetLen(cluster) ==
    LET lower_cluster == Lower(cluster) IN
    IF Len(cluster) >= 2 /\ lower_cluster[1] = lower_cluster[2]
        THEN Len(cluster) - 1
    ELSE IF lower_cluster[Len(lower_cluster)] \in {"soft", "hard"}
        THEN 1
    ELSE IF Len(lower_cluster) >= 3 /\ Suffix(lower_cluster, 3) \in ALLOWED_ONSET_3
        THEN 3
    ELSE IF Len(lower_cluster) >= 2 /\ Suffix(lower_cluster, 2) \in ALLOWED_ONSET_2
        THEN 2
    ELSE 1

\* the boundary before the clamp of line 70 (lines 50-68)
ComputedBoundary(w, vpos, next_vpos) ==
    LET cluster == Slice(w, vpos + 1, next_vpos) IN
    IF cluster = <<>> THEN next_vpos ELSE next_vpos - OnsetLen(cluster)

\* one iteration of the for loop (lines 44-73) on the loop state
\* s = [i, start, syllables, raw, clamp, done]; i is 0-based as in the source
SplitIteration(w, s) ==
    LET vp       == vowel_positions(w)
        vpos     == vp[s.i + 1]
    IN  IF s.i = Len(vp) - 1
        THEN [s EXCEPT !.syllables = Append(@, Slice(w, s.start, Len(w))),
                       !.done = TRUE]
        ELSE LET next_vpos == vp[s.i + 2]
                 computed  == ComputedBoundary(w, vpos, next_vpos)
                 boundary  == IF computed <= s.start THEN next_vpos ELSE computed
             IN  [s EXCEPT !.syllables = Append(@, Slice(w, s.start, boundary)),
                           !.start = boundary,
                           !.i = @ + 1,
                           !.raw = computed,
                           !.clamp = (@ \/ boundary # computed)]

SplitStart == [i |-> 0, start |-> 0, syllables |-> <<>>, raw |-> 0,
               clamp |-> FALSE, done |-> FALSE]

RECURSIVE SplitLoop(_, _)
SplitLoop(w, s) == IF s.done THEN s ELSE SplitLoop(w, SplitIteration(w, s))

split_russian_syllables(w) ==
    IF Len(vowel_positions(w)) <= 1 THEN <<w>> ELSE SplitLoop(w, SplitStart).syllables

\* a plausible slip: the remainder starts one character late
FirstSyllableFromSkip(w, syls) ==
    IF syls = <<>> THEN <<w, <<>>>>
    ELSE <<syls[1], Slice(w, Len(syls[1]) + 1, Len(w))>>

\* first_syllable_parts after the call of line 80 (lines 81-85)
FirstSyllableFrom(w, syls) ==
    IF syls = <<>> THEN <<w, <<>>>>
    ELSE <<syls[1], Slice(w, Len(syls[1]), Len(w))>>

\* first_syllable_parts without its cache (lines 79-85)
first_syllable_parts(w) == FirstSyllableFrom(w, split_russian_syllables(w))

Max(a, b) == IF a >= b THEN a ELSE b

\* the head length n of bionic_parts (lines 89-99)
BionicN(length) ==
    IF length <= 3 THEN length
    ELSE IF length <= 5 THEN 2
    ELSE IF length <= 7 THEN 2
    ELSE IF length <= 10 THEN 3
    ELSE Max(3, length \div 3)

\* bionic_parts without its cache (lines 88-100); w[:n], w[n:]
bionic_parts(w) ==
    LET n == BionicN(Len(w)) IN <<Slice(w, 0, n), Slice(w, n, Len(w))>>

-----------------------------------------------------------------------------
(* SpecSeg: one call of each segmenter on one word, the loop of            *)
(* split_russian_syllables taken one iteration at a time                   *)

\* letters the input words are drawn from: a vowel, the
\* consonants of the onsets "st", "tr", "str" in both cases of "s", the soft sign
SegAlphabet == {"a", "s", "S", "t", "r", "soft"}

\* letters of the longer words: an upper-case vowel and a consonant
LongAlphabet == {"A", "s"}

WordsOver(alphabet, lo, hi) == UNION { [1..n -> alphabet] : n \in lo..hi }

SegWords ==
    WordsOver(SegAlphabet, 1, MaxWordLen)
        \cup WordsOver(LongAlphabet, MaxWordLen + 1, MaxLongLen)

SegIdle ==
    /\ word = <<>>
    /\ segPc = "idle"
    /\ loopI = 0
    /\ start = 0
    /\ syllables = <<>>
    /\ rawBoundary = 0
    /\ clampFired = FALSE
    /\ fsOut = <<>>
    /\ bpOut = <<>>

CacheIdle ==
    /\ cache = <<>>
    /\ lastCall = <<>>
    /\ evicted = FALSE

TextIdle ==
    /\ text = <<>>
    /\ mode = ""
    /\ textPc = "idle"
    /\ pos = 0
    /\ nodes = <<>>

DocIdle ==
    /\ hasBody = FALSE
    /\ hasHead = FALSE
    /\ headStyles = 0
    /\ otherStyles = 0
    /\ inputStyles = <<>>
    /\ tree = <<>>
    /\ nextId = 0
    /\ docMode = ""
    /\ htmlPc = "idle"
    /\ run = 0
    /\ paragraphs = <<>>
    /\ pIdx = 0
    /\ textNodes = <<>>
    /\ tIdx = 0
    /\ produced = {}
    /\ annotated = <<>>
    /\ runLog = <<>>

ZipIdle ==
    /\ structValid = FALSE
    /\ entries = <<>>
    /\ corruptAt = 0
    /\ corruptKind = "none"
    /\ zipPc = "idle"
    /\ idx = 0
    /\ out = <<>>
    /\ raised = "none"
    /\ returned = [some |-> FALSE, entries |-> <<>>]
    /\ response = "none"

SegInit ==
    /\ CacheIdle /\ TextIdle /\ DocIdle /\ ZipIdle
    /\ word \in SegWords
    /\ segPc = "call"
    /\ loopI = 0
    /\ start = 0
    /\ syllables = <<>>
    /\ rawBoundary = 0
    /\ clampFired = FALSE
    /\ fsOut = <<>>
    /\ bpOut = <<>>

\* lines 38-43: the early return, or entry into the loop
SplitEnter ==
    /\ segPc = "call"
    /\ IF Len(vowel_positions(word)) <= 1
       THEN /\ syllables' = <<word>>
            /\ segPc' = "returned"
       ELSE /\ syllables' = <<>>
            /\ segPc' = "loop"
    /\ loopI' = 0
    /\ start' = 0
    /\ UNCHANGED <<word, rawBoundary, clampFired, fsOut, bpOut>>
    /\ UNCHANGED notSeg

\* lines 44-75: one iteration of the loop; the last one returns
SplitLoopStep ==
    /\ segPc = "loop"
    /\ LET s == SplitIteration(word,
                    [i |-> loopI, start |-> start, syllables |-> syllables,
                     raw |-> rawBoundary, clamp |-> clampFired, done |-> FALSE])
       IN  /\ loopI' = s.i
           /\ start' = s.start
           /\ syllables' = s.syllables
           /\ rawBoundary' = s.raw
           /\ clampFired' = s.clamp
           /\ segPc' = IF s.done THEN "returned" ELSE "loop"
    /\ UNCHANGED <<word, fsOut, bpOut>>
    /\ UNCHANGED notSeg

\* lines 81-85 on the list split_russian_syllables returned
FirstSyllableReturn ==
    /\ segPc = "returned"
    /\ fsOut' = FirstSyllableFrom(word, syllables)
    /\ segPc' = "bionic"
    /\ UNCHANGED <<word, loopI, start, syllables, rawBoundary, clampFired, bpOut>>
    /\ UNCHANGED notSeg

\* lines 88-100
BionicReturn ==
    /\ segPc = "bionic"
    /\ bpOut' = bionic_parts(word)
    /\ segPc' = "done"
    /\ UNCHANGED <<word, loopI, start, syllables, rawBoundary, clampFired, fsOut>>
    /\ UNCHANGED notSeg

SegNext ==
    \/ SplitEnter
    \/ SplitLoopStep
    \/ FirstSyllableReturn
    \/ BionicReturn

SpecSeg == SegInit /\ [][SegNext]_vars

-----------------------------------------------------------------------------
(* Claims about the segmenters *)

Concat2(pair) == pair[1] \o pair[2]

\* C5: for every non-empty word and both strategies, head + remainder is the
\* word itself, character for character.
C5_HeadPlusRemainder ==
    /\ segPc \in {"bionic", "done"} => Concat2(fsOut) = word
    /\ segPc = "done" => Concat2(bpOut) = word

\* a word long enough that both strategies leave a non-empty remainder
C5_Witness ==
    /\ segPc = "done"
    /\ Len(word) >= 11
    /\ fsOut[2] # <<>>
    /\ bpOut[2] # <<>>
    /\ Len(bpOut[1]) = 3

NumVowels(w) == Len(vowel_positions(w))

VowelsIn(s) == Cardinality({k \in 1..Len(s) : _is_vowel(s[k])})

RECURSIVE Flatten(_)
Flatten(ss) == IF ss = <<>> THEN <<>> ELSE Head(ss) \o Flatten(Tail(ss))

\* C10: for a word with at least two vowels the clamp never changes the
\* computed boundary, every syllable produced so far is non-empty and holds
\* exactly one vowel, and on return there are as many syllables as vowels,
\* they concatenate to the word, the head of first_syllable_parts holds
\* exactly the first vowel and its remainder is non-empty.
C10_OneVowelPerSyllable ==
    NumVowels(word) >= 2 =>
        /\ ~clampFired
        /\ segPc = "loop" /\ loopI >= 1 => rawBoundary > start - Len(syllables[loopI])
        /\ \A k \in 1..Len(syllables) :
              syllables[k] # <<>> /\ VowelsIn(syllables[k]) = 1
        /\ segPc \in {"returned", "bionic", "done"} =>
              /\ Len(syllables) = NumVowels(word)
              /\ Flatten(syllables) = word
        /\ segPc \in {"bionic", "done"} =>
              /\ VowelsIn(fsOut[1]) = 1
              /\ Len(fsOut[1]) > vowel_positions(word)[1]
              /\ fsOut[2] # <<>>

\* a returned word of two or more vowels whose head keeps a consonant with
\* its vowel and one of whose syllables is three letters or longer
C10_Witness ==
    /\ segPc = "done"
    /\ NumVowels(word) >= 2
    /\ Len(syllables) >= 2
    /\ \E k \in 1..Len(syllables) : Len(syllables[k]) >= 3
    /\ Len(fsOut[1]) >= 2

-----------------------------------------------------------------------------
(* SpecCache: calls of the two memoised functions, src/app.py lines 78-79   *)
(* and 87-88.  functools.lru_cache keeps one store per decorated function,  *)
(* keyed by the argument; a hit returns the stored result and makes the     *)
(* entry the most recent, a miss calls the function, evicts the least       *)
(* recent entry of a full store and stores the result.  cache[fn] lists the *)
(* entries of fn's store, least recent first.                               *)

CachedFns == {"first_syllable_parts", "bionic_parts"}

\* the decorated function itself
Uncached(fn, w) ==
    IF fn = "first_syllable_parts" THEN first_syllable_parts(w) ELSE bionic_parts(w)

\* words the calls are made with; the strategies disagree on the longer ones
CacheWords ==
    { <<"a">>, <<"a","s","a">>, <<"s","a","s","a">>, <<"a","s","t","r","a">> }

\* a plausible slip: one store shared by both functions, keyed by the word alone
SharedStoreEntries(fn, w) ==
    LET all == cache["first_syllable_parts"] \o cache["bionic_parts"]
    IN  { all[k] : k \in { j \in 1..Len(all) : all[j].key = w } }

\* the entries of fn's store under key w (none or one)
StoreEntries(fn, w) ==
    { cache[fn][k] : k \in { j \in 1..Len(cache[fn]) : cache[fn][j].key = w } }

RemoveKey(store, w) ==
    LET keep == { j \in 1..Len(store) : store[j].key # w }
        F[k \in 0..Len(store)] ==
            IF k = 0 THEN <<>>
            ELSE IF k \in keep THEN Append(F[k - 1], store[k]) ELSE F[k - 1]
    IN  F[Len(store)]

CacheInit ==
    /\ SegIdle /\ TextIdle /\ DocIdle /\ ZipIdle
    /\ cache = [fn \in CachedFns |-> <<>>]
    /\ lastCall = <<>>
    /\ evicted = FALSE

\* a call that finds its argument in the store
CacheHit(fn, w) ==
    /\ StoreEntries(fn, w) # {}
    /\ LET e == CHOOSE x \in StoreEntries(fn, w) : TRUE
       IN  /\ lastCall' = [fn |-> fn, arg |-> w, result |-> e.result, hit |-> TRUE]
           /\ cache' = [cache EXCEPT ![fn] = Append(RemoveKey(@, w), e)]
    /\ UNCHANGED evicted
    /\ UNCHANGED notCache

\* a call that does not: the function runs and its result is stored
CacheMiss(fn, w) ==
    /\ StoreEntries(fn, w) = {}
    /\ LET r    == Uncached(fn, w)
           full == Len(cache[fn]) >= CacheCapacity
       IN  /\ lastCall' = [fn |-> fn, arg |-> w, result |-> r, hit |-> FALSE]
           /\ cache' = [cache EXCEPT ![fn] =
                            Append(IF full THEN Tail(@) ELSE @,
                                   [key |-> w, result |-> r])]
           /\ evicted' = (evicted \/ full)
    /\ UNCHANGED notCache

CacheNext ==
    \E fn \in CachedFns, w \in CacheWords :
        \/ CacheHit(fn, w)
        \/ CacheMiss(fn, w)

SpecCache == CacheInit /\ [][CacheNext]_vars

\* C6: every call through a cache returns what the uncached function returns
\* for that word, whatever was called before, and each store only ever holds
\* its own function's results.
C6_CacheTransparent ==
    /\ lastCall # <<>> => lastCall.result = Uncached(lastCall.fn, lastCall.arg)
    /\ \A fn \in DOMAIN cache : \A k \in 1..Len(cache[fn]) :
          cache[fn][k].result = Uncached(fn, cache[fn][k].key)

\* a hit, after an eviction, on a word the other store holds with another result
C6_Witness ==
    /\ lastCall # <<>>
    /\ lastCall.hit
    /\ evicted
    /\ \A fn \in CachedFns : Len(cache[fn]) = CacheCapacity
    /\ \E fn \in CachedFns \ {lastCall.fn} : \E k \in 1..Len(cache[fn]) :
          /\ cache[fn][k].key = lastCall.arg
          /\ cache[fn][k].result # lastCall.result

-----------------------------------------------------------------------------
(* build_nodes_for_text: src/app.py lines 24-26 and 102-137 *)

\* PUNCT_CHARS (line 25); "laquo" and "raquo" are the guillemets, "ldquo" and
\* "rdquo" the curly double quotes, "quot" the straight one, "mdash" and
\* "ndash" the long dashes
PunctChars ==
    { ",", ";", ":", "!", "?", "(", ")", "[", "]", "{", "}",
      "laquo", "raquo", "ldquo", "rdquo", "quot", "mdash", "ndash", "-" }

\* the end (exclusive) of the run of word characters that starts at 0-based k
RECURSIVE WordRunEnd(_, _)
WordRunEnd(t, k) ==
    IF k < Len(t) /\ t[k + 1] \in WordChars THEN WordRunEnd(t, k + 1) ELSE k

\* TOKEN_RE, the first match at or after 0-based i: positions where it can start
TokenStarts(t, i) ==
    { k \in i..(Len(t) - 1) : t[k + 1] \in WordChars \cup PunctChars }

\* TOKEN_RE.search(text) (line 103)
HasToken(t) == TokenStarts(t, 0) # {}

\* the match object: [start, end), 0-based
NextMatch(t, i) ==
    LET k == CHOOSE x \in TokenStarts(t, i) : \A y \in TokenStarts(t, i) : x <= y
    IN  [start |-> k,
         end   |-> IF t[k + 1] \in WordChars THEN WordRunEnd(t, k) ELSE k + 1]

\* WORD_RE.fullmatch(token) (line 113)
IsWord(token) == token # <<>> /\ \A k \in 1..Len(token) : token[k] \in WordChars

NavigableString(t) == [kind |-> "string", text |-> t]
StrongTag(t) == [kind |-> "strong", text |-> t]
PunctSpan(t) == [kind |-> "span.punct", text |-> t]

\* a plausible slip: the text between two tokens is kept only when longer than one
GapNodesOffByOne(t, i, mstart) ==
    IF mstart > i + 1 THEN <<NavigableString(Slice(t, i, mstart))>> ELSE <<>>

\* lines 109-110: the text between the previous token and this one
GapNodes(t, i, mstart) ==
    IF mstart > i THEN <<NavigableString(Slice(t, i, mstart))>> ELSE <<>>

\* lines 112-130: the nodes of one token
TokenNodes(token, m) ==
    IF IsWord(token)
    THEN LET parts == IF m = "bionic"
                      THEN Uncached("bionic_parts", token)
                      ELSE Uncached("first_syllable_parts", token)
             strong_text == parts[1]
             rest_text   == parts[2]
         IN  IF strong_text # <<>>
             THEN <<StrongTag(strong_text)>>
                    \o (IF rest_text # <<>> THEN <<NavigableString(rest_text)>> ELSE <<>>)
             ELSE <<NavigableString(token)>>
    ELSE <<PunctSpan(token)>>

\* one iteration of the finditer loop (lines 108-132) on s = [i, nodes]
BuildIteration(t, m, s) ==
    LET match == NextMatch(t, s.i)
        token == Slice(t, match.start, match.end)
    IN  [i     |-> match.end,
         nodes |-> s.nodes \o GapNodes(t, s.i, match.start) \o TokenNodes(token, m)]

\* lines 134-135: the text after the last token
TailNodes(t, i) == IF i < Len(t) THEN <<NavigableString(Slice(t, i, Len(t)))>> ELSE <<>>

RECURSIVE BuildLoop(_, _, _)
BuildLoop(t, m, s) ==
    IF TokenStarts(t, s.i) = {} THEN s.nodes \o TailNodes(t, s.i)
    ELSE BuildLoop(t, m, BuildIteration(t, m, s))

\* build_nodes_for_text as a whole: none is the None of line 104
build_nodes_for_text(t, m) ==
    IF ~HasToken(t) THEN [none |-> TRUE, nodes |-> <<>>]
    ELSE [none |-> FALSE, nodes |-> BuildLoop(t, m, [i |-> 0, nodes |-> <<>>])]

-----------------------------------------------------------------------------
(* SpecText: one call of build_nodes_for_text, one match at a time *)

\* a vowel, two consonants, two punctuation characters, a space
TextAlphabet == {"a", "s", "t", ",", "-", " "}

\* convert() passes request.form.get("mode", "syllable") on unchecked
\* (line 251): any string other than "bionic" selects the syllable strategy
Modes == {"syllable", "bionic", "other"}

TextInit ==
    /\ SegIdle /\ CacheIdle /\ DocIdle /\ ZipIdle
    /\ text \in WordsOver(TextAlphabet, 0, MaxTextLen)
    /\ mode \in Modes
    /\ textPc = "call"
    /\ pos = 0
    /\ nodes = <<>>

\* lines 103-107
BuildEnter ==
    /\ textPc = "call"
    /\ textPc' = IF HasToken(text) THEN "loop" ELSE "returned_none"
    /\ pos' = 0
    /\ nodes' = <<>>
    /\ UNCHANGED <<text, mode>>
    /\ UNCHANGED notText

\* lines 108-132, one match
BuildMatch ==
    /\ textPc = "loop"
    /\ TokenStarts(text, pos) # {}
    /\ LET s == BuildIteration(text, mode, [i |-> pos, nodes |-> nodes])
       IN  /\ pos' = s.i
           /\ nodes' = s.nodes
    /\ UNCHANGED <<text, mode, textPc>>
    /\ UNCHANGED notText

\* lines 134-137, when finditer is exhausted
BuildReturn ==
    /\ textPc = "loop"
    /\ TokenStarts(text, pos) = {}
    /\ nodes' = nodes \o TailNodes(text, pos)
    /\ textPc' = "returned"
    /\ UNCHANGED <<text, mode, pos>>
    /\ UNCHANGED notText

TextNext ==
    \/ BuildEnter
    \/ BuildMatch
    \/ BuildReturn

SpecText == TextInit /\ [][TextNext]_vars

RECURSIVE NodesText(_)
NodesText(ns) == IF ns = <<>> THEN <<>> ELSE Head(ns).text \o NodesText(Tail(ns))

\* C8: for a text run with a word or punctuation token and either mode, the
\* texts of the nodes built so far concatenate to the text consumed so far,
\* and the texts of the returned nodes concatenate to the whole run.
C8_TextPreserved ==
    /\ textPc = "loop" => NodesText(nodes) = Slice(text, 0, pos)
    /\ textPc = "returned" => NodesText(nodes) = text

\* a returned list holding an emphasis, a punctuation marker and, between or
\* after tokens, plain text that no token matched
C8_Witness ==
    /\ textPc = "returned"
    /\ \E k \in 1..Len(nodes) : nodes[k].kind = "strong"
    /\ \E k \in 1..Len(nodes) : nodes[k].kind = "span.punct"
    /\ \E k \in 1..Len(nodes) : nodes[k] = NavigableString(<<" ">>)

-----------------------------------------------------------------------------
(* The parsed document: src/app.py lines 140-198.                           *)
(* tree maps a node id to [tag, cls, text, kids]: an element has a tag, its  *)
(* class list cls and the ids of its children in order; a NavigableString   *)
(* has the tag "#text" and its text.  Body is soup.body.  A node that was    *)
(* replaced stays in tree, detached (no node lists it as a child).  The     *)
(* head is kept as what ensure_style reads and writes: whether soup.head    *)
(* exists, how many style elements with id speedread-style it holds, and    *)
(* how many the rest of the document holds.                                 *)

Body == 1

TextShape(t) == [tag |-> "#text", cls |-> {}, text |-> t, kids |-> <<>>]
Elem(tag, cls, kids) == [tag |-> tag, cls |-> cls, text |-> <<>>, kids |-> kids]

\* soup.new_tag / NavigableString for a whole subtree: the nodes of shape sh
\* get the ids from n on, the root first
RECURSIVE Install(_, _, _), InstallSeq(_, _, _)
Install(t, n, sh) ==
    LET sub == InstallSeq(t, n + 1, sh.kids)
    IN  [tree |-> sub.tree @@ (n :> [sh EXCEPT !.kids = sub.ids]),
         next |-> sub.next,
         ids  |-> <<n>>]
InstallSeq(t, n, shs) ==
    IF shs = <<>> THEN [tree |-> t, next |-> n, ids |-> <<>>]
    ELSE LET first == Install(t, n, Head(shs))
             rest  == InstallSeq(first.tree, first.next, Tail(shs))
         IN  [tree |-> rest.tree, next |-> rest.next, ids |-> first.ids \o rest.ids]

\* the descendants of a node in document order
RECURSIVE Desc(_, _), DescSeq(_, _)
Desc(t, id) == DescSeq(t, t[id].kids)
DescSeq(t, ks) ==
    IF ks = <<>> THEN <<>>
    ELSE <<Head(ks)>> \o Desc(t, Head(ks)) \o DescSeq(t, Tail(ks))

\* body.find_all("p") (lines 175 and 188)
FindAllP(t) == SelectSeq(Desc(t, Body), LAMBDA id : t[id].tag = "p")

\* p.find_all(string=True) (line 177)
FindAllStrings(t, p) == SelectSeq(Desc(t, p), LAMBDA id : t[id].tag = "#text")

HasParent(t, id) == \E q \in DOMAIN t : id \in Range(t[q].kids)
ParentOf(t, id) == CHOOSE q \in DOMAIN t : id \in Range(t[q].kids)
IndexIn(ks, id) == CHOOSE k \in 1..Len(ks) : ks[k] = id

\* p.find_next_sibling(): the next sibling that is an element; 0 is None
FindNextSibling(t, id) ==
    LET ks    == t[ParentOf(t, id)].kids
        i     == IndexIn(ks, id)
        later == { k \in (i + 1)..Len(ks) : t[ks[k]].tag # "#text" }
    IN  IF later = {} THEN 0
        ELSE ks[CHOOSE k \in later : \A j \in later : k <= j]

\* the test of line 191
NextIsGap(t, p) ==
    LET next_sibling == FindNextSibling(t, p)
    IN  /\ next_sibling # 0
        /\ t[next_sibling].tag = "p"
        /\ "sr-gap" \in t[next_sibling].cls

\* the tree nodes of build_nodes_for_text's list (lines 110, 120-130)
NodeShape(node) ==
    IF node.kind = "string" THEN TextShape(node.text)
    ELSE IF node.kind = "strong" THEN Elem("strong", {}, <<TextShape(node.text)>>)
    ELSE Elem("span", {"punct"}, <<TextShape(node.text)>>)

NodeShapes(ns) == [k \in 1..Len(ns) |-> NodeShape(ns[k])]

\* replace_text_node (lines 140-148): the new ids take the old node's place
ReplaceTextNode(t, text_node, ids) ==
    LET par == ParentOf(t, text_node)
        ks  == t[par].kids
        i   == IndexIn(ks, text_node)
    IN  [t EXCEPT ![par].kids = SubSeq(ks, 1, i - 1) \o ids \o SubSeq(ks, i + 1, Len(ks))]

\* p.insert_after(gap) (line 196)
InsertAfter(t, p, id) ==
    LET par == ParentOf(t, p)
        ks  == t[par].kids
        i   == IndexIn(ks, p)
    IN  [t EXCEPT ![par].kids = SubSeq(ks, 1, i) \o <<id>> \o SubSeq(ks, i + 1, Len(ks))]

\* the gap paragraph of lines 193-195; "nbsp" is U+00A0
GapShape == Elem("p", {"sr-gap"}, <<TextShape(<<"nbsp">>)>>)

\* What BeautifulSoup(str(soup)) reads back (lines 198 and 168): the markup
\* keeps every element, and NavigableStrings that were adjacent siblings
\* come back as one string; detached nodes are not in the markup.
RECURSIVE MergeKids(_, _, _)
MergeKids(t, ks, acc) ==
    IF ks = <<>> THEN [kids |-> acc, tree |-> t]
    ELSE LET c == Head(ks) IN
         IF acc # <<>> /\ t[acc[Len(acc)]].tag = "#text" /\ t[c].tag = "#text"
         THEN MergeKids([t EXCEPT ![acc[Len(acc)]].text = @ \o t[c].text], Tail(ks), acc)
         ELSE MergeKids(t, Tail(ks), Append(acc, c))

RECURSIVE MergeNode(_, _), MergeSeq(_, _)
MergeNode(t, id) ==
    LET m == MergeKids(t, t[id].kids, <<>>)
    IN  MergeSeq([m.tree EXCEPT ![id].kids = m.kids], m.kids)
MergeSeq(t, ks) ==
    IF ks = <<>> THEN t ELSE MergeSeq(MergeNode(t, Head(ks)), Tail(ks))

Reparse(t) ==
    LET m == MergeNode(t, Body)
    IN  [id \in {Body} \cup Range(Desc(m, Body)) |-> m[id]]

\* a plausible slip: the style is appended whether or not one is there
StylesAfterAlwaysAppend(head, n) == IF head THEN n + 1 ELSE n

\* ensure_style (lines 151-164) on the number of reserved styles in the head
StylesAfterEnsure(head, n) == IF ~head THEN n ELSE IF n > 0 THEN n ELSE n + 1

CountNodes(t, tag, cls) ==
    Cardinality({ k \in 1..Len(Desc(t, Body)) :
                    LET id == Desc(t, Body)[k]
                    IN  t[id].tag = tag /\ cls \subseteq t[id].cls })

-----------------------------------------------------------------------------
(* SpecDoc: process_html_bytes run MaxRuns times on a document, each run    *)
(* on the bytes the run before returned                                     *)

TxtWord == <<"a", "s", "t", "r", "a">>
TxtMixed == <<"s", "a", ",", " ">>

\* the blocks a body is made of: a paragraph with a word, one with a word,
\* a comma and a space, a paragraph left open before the next one (which
\* html.parser nests inside it), a div, a paragraph holding a script
BlockShapes ==
    { Elem("p", {}, <<TextShape(TxtWord)>>),
      Elem("p", {}, <<TextShape(TxtMixed)>>),
      Elem("p", {}, <<TextShape(TxtMixed), Elem("p", {}, <<TextShape(TxtWord)>>)>>),
      Elem("div", {}, <<TextShape(TxtWord)>>),
      Elem("p", {}, <<Elem("script", {}, <<TextShape(TxtWord)>>)>>) }

\* [head present, reserved styles in the head, reserved styles elsewhere]
HeadVariants ==
    { <<FALSE, 0, 0>>, <<TRUE, 0, 0>>, <<TRUE, 1, 0>>, <<TRUE, 2, 0>>, <<TRUE, 0, 1>> }

DocModes == {"syllable", "bionic"}

\* the documents of at most maxBlocks blocks with the given heads, before
\* the first run; a document without a body is given no blocks
DocInputs(heads, maxBlocks, modes) ==
    /\ SegIdle /\ CacheIdle /\ TextIdle /\ ZipIdle
    /\ hasBody \in BOOLEAN
    /\ \E h \in heads :
          /\ hasHead = h[1]
          /\ headStyles = h[2]
          /\ otherStyles = h[3]
          /\ inputStyles = <<h[2], h[3]>>
    /\ \E blocks \in WordsOver(BlockShapes, 0, maxBlocks) :
          /\ (~hasBody) => blocks = <<>>
          /\ LET doc == Install(<<>>, Body, Elem("body", {}, blocks))
             IN  /\ tree = doc.tree
                 /\ nextId = doc.next
    /\ docMode \in modes
    /\ htmlPc = "parse"
    /\ run = 1
    /\ paragraphs = <<>>
    /\ pIdx = 0
    /\ textNodes = <<>>
    /\ tIdx = 0
    /\ produced = {}
    /\ annotated = <<>>
    /\ runLog = <<>>

DocInit == DocInputs({<<FALSE, 0, 0>>, <<TRUE, 0, 0>>}, MaxBlocks, DocModes)

\* the same runs on short documents with every kind of head
StyleInit == DocInputs(HeadVariants, MaxStyleBlocks, {"syllable"})

\* lines 168-171: parse; a document without a body is returned as it came
HtmlParse ==
    /\ htmlPc = "parse"
    /\ tree' = Reparse(tree)
    /\ htmlPc' = IF hasBody THEN "style" ELSE "returned_unchanged"
    /\ UNCHANGED <<hasBody, hasHead, headStyles, otherStyles, inputStyles, nextId,
                   docMode, run, paragraphs, pIdx, textNodes, tIdx,
                   produced, annotated, runLog>>
    /\ UNCHANGED notDoc

\* line 173
EnsureStyle ==
    /\ htmlPc = "style"
    /\ headStyles' = StylesAfterEnsure(hasHead, headStyles)
    /\ htmlPc' = "list_paragraphs"
    /\ UNCHANGED <<hasBody, hasHead, otherStyles, inputStyles, tree, nextId,
                   docMode, run, paragraphs, pIdx, textNodes, tIdx,
                   produced, annotated, runLog>>
    /\ UNCHANGED notDoc

\* line 175
ListParagraphs ==
    /\ htmlPc = "list_paragraphs"
    /\ paragraphs' = FindAllP(tree)
    /\ pIdx' = 1
    /\ htmlPc' = "paragraph"
    /\ UNCHANGED <<hasBody, hasHead, headStyles, otherStyles, inputStyles, tree, nextId,
                   docMode, run, textNodes, tIdx, produced, annotated, runLog>>
    /\ UNCHANGED notDoc

\* lines 176-177: the next paragraph's strings, listed when its turn comes
ListTextNodes ==
    /\ htmlPc = "paragraph"
    /\ pIdx <= Len(paragraphs)
    /\ textNodes' = FindAllStrings(tree, paragraphs[pIdx])
    /\ tIdx' = 1
    /\ htmlPc' = "text_node"
    /\ UNCHANGED <<hasBody, hasHead, headStyles, otherStyles, inputStyles, tree, nextId,
                   docMode, run, paragraphs, pIdx, produced, annotated, runLog>>
    /\ UNCHANGED notDoc

\* lines 179-181: a string inside script or style is skipped
SkipScriptText ==
    /\ htmlPc = "text_node"
    /\ tIdx <= Len(textNodes)
    /\ LET text_node == textNodes[tIdx]
       IN  /\ HasParent(tree, text_node)
           /\ tree[ParentOf(tree, text_node)].tag \in {"script", "style"}
    /\ tIdx' = tIdx + 1
    /\ UNCHANGED <<hasBody, hasHead, headStyles, otherStyles, inputStyles, tree, nextId,
                   docMode, htmlPc, run, paragraphs, pIdx, textNodes,
                   produced, annotated, runLog>>
    /\ UNCHANGED notDoc

\* lines 182-184 when build_nodes_for_text returns None
LeaveTextNode ==
    /\ htmlPc = "text_node"
    /\ tIdx <= Len(textNodes)
    /\ LET text_node == textNodes[tIdx]
       IN  /\ ~(HasParent(tree, text_node)
                /\ tree[ParentOf(tree, text_node)].tag \in {"script", "style"})
           /\ build_nodes_for_text(tree[text_node].text, docMode).none
    /\ tIdx' = tIdx + 1
    /\ UNCHANGED <<hasBody, hasHead, headStyles, otherStyles, inputStyles, tree, nextId,
                   docMode, htmlPc, run, paragraphs, pIdx, textNodes,
                   produced, annotated, runLog>>
    /\ UNCHANGED notDoc

\* lines 182-185: the string is replaced by the nodes built from its text
AnnotateTextNode ==
    /\ htmlPc = "text_node"
    /\ tIdx <= Len(textNodes)
    /\ LET text_node == textNodes[tIdx]
           built     == build_nodes_for_text(tree[text_node].text, docMode)
           new       == InstallSeq(tree, nextId, NodeShapes(built.nodes))
       IN  /\ ~(HasParent(tree, text_node)
                /\ tree[ParentOf(tree, text_node)].tag \in {"script", "style"})
           /\ ~built.none
           /\ tree' = ReplaceTextNode(new.tree, text_node, new.ids)
           /\ nextId' = new.next
           /\ produced' = produced \cup (nextId..(new.next - 1))
           /\ annotated' = Append(annotated, text_node)
    /\ tIdx' = tIdx + 1
    /\ UNCHANGED <<hasBody, hasHead, headStyles, otherStyles, inputStyles,
                   docMode, htmlPc, run, paragraphs, pIdx, textNodes, runLog>>
    /\ UNCHANGED notDoc

\* the inner loop of line 178 is over: on to the next paragraph
NextParagraph ==
    /\ htmlPc = "text_node"
    /\ tIdx > Len(textNodes)
    /\ pIdx' = pIdx + 1
    /\ htmlPc' = "paragraph"
    /\ UNCHANGED <<hasBody, hasHead, headStyles, otherStyles, inputStyles, tree, nextId,
                   docMode, run, paragraphs, textNodes, tIdx,
                   produced, annotated, runLog>>
    /\ UNCHANGED notDoc

\* line 188, after the loop of line 176
ListGapParagraphs ==
    /\ htmlPc = "paragraph"
    /\ pIdx > Len(paragraphs)
    /\ paragraphs' = FindAllP(tree)
    /\ pIdx' = 1
    /\ htmlPc' = "gap"
    /\ UNCHANGED <<hasBody, hasHead, headStyles, otherStyles, inputStyles, tree, nextId,
                   docMode, run, textNodes, tIdx, produced, annotated, runLog>>
    /\ UNCHANGED notDoc

\* lines 190-192: the paragraph is already followed by a gap
KeepGap ==
    /\ htmlPc = "gap"
    /\ pIdx <= Len(paragraphs)
    /\ NextIsGap(tree, paragraphs[pIdx])
    /\ pIdx' = pIdx + 1
    /\ UNCHANGED <<hasBody, hasHead, headStyles, otherStyles, inputStyles, tree, nextId,
                   docMode, htmlPc, run, paragraphs, textNodes, tIdx,
                   produced, annotated, runLog>>
    /\ UNCHANGED notDoc

\* lines 190-196: a gap paragraph is inserted after the paragraph
InsertGap ==
    /\ htmlPc = "gap"
    /\ pIdx <= Len(paragraphs)
    /\ ~NextIsGap(tree, paragraphs[pIdx])
    /\ LET gap == Install(tree, nextId, GapShape)
       IN  /\ tree' = InsertAfter(gap.tree, paragraphs[pIdx], gap.ids[1])
           /\ nextId' = gap.next
    /\ pIdx' = pIdx + 1
    /\ UNCHANGED <<hasBody, hasHead, headStyles, otherStyles, inputStyles,
                   docMode, htmlPc, run, paragraphs, textNodes, tIdx,
                   produced, annotated, runLog>>
    /\ UNCHANGED notDoc

\* line 198: the document is serialised and returned
Serialize ==
    /\ htmlPc = "gap"
    /\ pIdx > Len(paragraphs)
    /\ runLog' = Append(runLog,
                    [paragraphs |-> CountNodes(tree, "p", {}),
                     gaps       |-> CountNodes(tree, "p", {"sr-gap"}),
                     strongs    |-> CountNodes(tree, "strong", {}),
                     puncts     |-> CountNodes(tree, "span", {"punct"}),
                     styles     |-> headStyles + otherStyles])
    /\ htmlPc' = "returned"
    /\ UNCHANGED <<hasBody, hasHead, headStyles, otherStyles, inputStyles, tree, nextId,
                   docMode, run, paragraphs, pIdx, textNodes, tIdx,
                   produced, annotated>>
    /\ UNCHANGED notDoc

\* process_html_bytes is called again, on the bytes it returned
RunAgain ==
    /\ htmlPc = "returned"
    /\ run < MaxRuns
    /\ run' = run + 1
    /\ htmlPc' = "parse"
    /\ paragraphs' = <<>>
    /\ pIdx' = 0
    /\ textNodes' = <<>>
    /\ tIdx' = 0
    /\ produced' = {}
    /\ annotated' = <<>>
    /\ UNCHANGED <<hasBody, hasHead, headStyles, otherStyles, inputStyles, tree, nextId,
                   docMode, runLog>>
    /\ UNCHANGED notDoc

DocNext ==
    \/ HtmlParse
    \/ EnsureStyle
    \/ ListParagraphs
    \/ ListTextNodes
    \/ SkipScriptText
    \/ LeaveTextNode
    \/ AnnotateTextNode
    \/ NextParagraph
    \/ ListGapParagraphs
    \/ KeepGap
    \/ InsertGap
    \/ Serialize
    \/ RunAgain

SpecDoc == DocInit /\ [][DocNext]_vars

SpecStyle == StyleInit /\ [][DocNext]_vars

-----------------------------------------------------------------------------
(* Claims about process_html_bytes *)

\* C2: for every document with a body, a second run inserts no further gap
\* paragraph: the document has as many paragraph elements after two runs as
\* after one.
C2_GapInsertionIdempotent ==
    Len(runLog) >= 2 => runLog[2].paragraphs = runLog[1].paragraphs

\* C3: for every document and either mode, a second run adds no strong
\* element and no span.punct element to the output of the first.
C3_NoMarkupDuplicated ==
    Len(runLog) >= 2 =>
        /\ runLog[2].strongs = runLog[1].strongs
        /\ runLog[2].puncts = runLog[1].puncts

\* C9: within one run no string is annotated twice and no string that an
\* annotation produced is annotated again, whatever the shape of the body.
C9_AnnotatedAtMostOnce ==
    /\ \A k \in 1..Len(annotated) : annotated[k] \notin produced
    /\ \A j, k \in 1..Len(annotated) : annotated[j] = annotated[k] => j = k

AfterEnsureStyle == htmlPc \notin {"parse", "style", "returned_unchanged"}

\* C4 as stated: for every document with a body, after ensure_style has run
\* twice the document holds exactly one style element with id speedread-style.
C4_ExactlyOneStyle ==
    hasBody /\ run >= 2 /\ AfterEnsureStyle => headStyles + otherStyles = 1

\* C4 as amended: for every document with a body and a head element, in which
\* an element style#speedread-style occurs at most once and only inside the
\* head, after ensure_style has run once, twice or more the document holds
\* exactly one such element, and it is in the head.
C4_ExactlyOneStyleGivenHead ==
    (/\ hasBody /\ hasHead
     /\ inputStyles[1] <= 1 /\ inputStyles[2] = 0
     /\ AfterEnsureStyle)
        => headStyles = 1 /\ otherStyles = 0

\* the second ensure_style has run on a document whose head had no style at first
C4_Witness ==
    /\ hasBody /\ hasHead
    /\ inputStyles = <<0, 0>>
    /\ run = 2
    /\ htmlPc = "list_paragraphs"
    /\ headStyles = 1


-----------------------------------------------------------------------------
(* process_epub and convert: src/app.py lines 201-226 and 250-264.          *)
(* An archive is the sequence of its entries in central-directory order     *)
(* (zin.infolist()); an entry is [filename, data, meta], meta holding the   *)
(* ZipInfo fields.  A file name is a sequence of ASCII characters.          *)

AsciiUpper == <<"H", "T", "M", "L", "X">>
AsciiLower == <<"h", "t", "m", "l", "x">>

\* str.lower() on a file name (line 208)
LowerName(name) ==
    [k \in 1..Len(name) |->
        IF \E j \in 1..Len(AsciiUpper) : AsciiUpper[j] = name[k]
        THEN AsciiLower[CHOOSE j \in 1..Len(AsciiUpper) : AsciiUpper[j] = name[k]]
        ELSE name[k]]

EndsWith(name, suffix) ==
    Len(name) >= Len(suffix) /\ Suffix(name, Len(suffix)) = suffix

\* line 209
IsHtmlName(name) ==
    \E suffix \in { <<".", "x", "h", "t", "m", "l">>, <<".", "h", "t", "m", "l">>,
                     <<".", "h", "t", "m">> } :
        EndsWith(LowerName(name), suffix)

\* process_html_bytes on a payload (lines 167-198): bytes in which the
\* parser finds no body come back as they are, any other payload comes
\* back as the serialised rewritten document
ProcessHtmlBytes(data) ==
    IF data.body THEN [data EXCEPT !.rewritten = @ + 1] ELSE data

\* zin.read(info.filename) (line 207): ZipFile.read looks the name up in its
\* name table, where a later entry of the same name has replaced an earlier
\* one; the index of the entry whose bytes are read
ReadIndex(es, i) ==
    CHOOSE j \in 1..Len(es) :
        /\ es[j].filename = es[i].filename
        /\ \A k \in 1..Len(es) : es[k].filename = es[i].filename => k <= j

\* lines 212-223: the ZipInfo written for an entry.  The fields of lines
\* 212-222 are copied; ZipFile.writestr then clears flag_bits before it
\* writes the header.
NewInfo(info) ==
    [date_time       |-> info.date_time,
     compress_type   |-> info.compress_type,
     external_attr   |-> info.external_attr,
     internal_attr   |-> info.internal_attr,
     flag_bits       |-> 0,
     create_system   |-> info.create_system,
     create_version  |-> info.create_version,
     extract_version |-> info.extract_version,
     volume          |-> info.volume,
     comment         |-> info.comment,
     extra           |-> info.extra]

\* lines 207-223 for entry i, whose read succeeds
WrittenEntry(es, i) ==
    LET data == es[ReadIndex(es, i)].data
    IN  [filename |-> es[i].filename,
         data     |-> IF IsHtmlName(es[i].filename) THEN ProcessHtmlBytes(data) ELSE data,
         meta     |-> NewInfo(es[i].meta)]

-----------------------------------------------------------------------------
(* SpecZip: one request to convert() *)

MetaPlain ==
    [date_time |-> <<1980, 1, 1, 0, 0, 0>>, compress_type |-> 0, external_attr |-> 0,
     internal_attr |-> 0, flag_bits |-> 0, create_system |-> 0, create_version |-> 20,
     extract_version |-> 20, volume |-> 0, comment |-> "", extra |-> ""]

MetaRich ==
    [date_time |-> <<2001, 2, 3, 4, 5, 6>>, compress_type |-> 8, external_attr |-> 420,
     internal_attr |-> 1, flag_bits |-> 2, create_system |-> 3, create_version |-> 45,
     extract_version |-> 10, volume |-> 0, comment |-> "c", extra |-> "x"]

Bytes(b) == [bytes |-> b, body |-> FALSE, rewritten |-> 0]
HtmlDoc(b) == [bytes |-> b, body |-> TRUE, rewritten |-> 0]

\* the entries archives are made of: two different images under one name, HTML
\* documents under the three extensions (one without a body), and a file whose
\* name ends in "htm" without the dot
EntryPool ==
    { [filename |-> <<"a", ".", "p", "n", "g">>, data |-> Bytes("img1"), meta |-> MetaPlain],
      [filename |-> <<"a", ".", "p", "n", "g">>, data |-> Bytes("img2"), meta |-> MetaRich],
      [filename |-> <<"c", ".", "H", "T", "M", "L">>, data |-> HtmlDoc("doc1"), meta |-> MetaPlain],
      [filename |-> <<"c", ".", "x", "h", "t", "m", "l">>, data |-> Bytes("doc2"), meta |-> MetaPlain],
      [filename |-> <<"c", ".", "h", "t", "m">>, data |-> HtmlDoc("doc3"), meta |-> MetaRich],
      [filename |-> <<"h", "t", "m">>, data |-> HtmlDoc("doc4"), meta |-> MetaPlain] }

\* what ZipFile.read raises on an entry it cannot read: BadZipFile on a bad
\* header or CRC, NotImplementedError on an unknown compression method,
\* zlib.error on a damaged deflate stream
ReadErrors == {"BadZipFile", "NotImplementedError", "zlib.error"}

ZipInit ==
    /\ SegIdle /\ CacheIdle /\ TextIdle /\ DocIdle
    /\ structValid \in BOOLEAN
    /\ entries \in WordsOver(EntryPool, 0, MaxEntries)
    /\ (~structValid) => entries = <<>>
    /\ corruptAt \in 0..Len(entries)
    /\ corruptKind \in IF corruptAt = 0 THEN {"none"} ELSE ReadErrors
    /\ zipPc = "open"
    /\ idx = 0
    /\ out = <<>>
    /\ raised = "none"
    /\ returned = [some |-> FALSE, entries |-> <<>>]
    /\ response = "none"

\* line 205: the bytes are not a zip file
EpubOpenFails ==
    /\ zipPc = "open"
    /\ ~structValid
    /\ raised' = "BadZipFile"
    /\ zipPc' = "raised"
    /\ UNCHANGED <<structValid, entries, corruptAt, corruptKind, idx, out, returned, response>>
    /\ UNCHANGED notZip

\* lines 202-206
EpubOpen ==
    /\ zipPc = "open"
    /\ structValid
    /\ idx' = 1
    /\ zipPc' = "loop"
    /\ UNCHANGED <<structValid, entries, corruptAt, corruptKind, out, raised, returned, response>>
    /\ UNCHANGED notZip

\* a plausible slip: the error is swallowed and what was written is returned
EpubReadFailsReturnsPartial ==
    /\ zipPc = "loop"
    /\ idx <= Len(entries)
    /\ ReadIndex(entries, idx) = corruptAt
    /\ returned' = [some |-> TRUE, entries |-> out]
    /\ zipPc' = "returned"
    /\ UNCHANGED <<structValid, entries, corruptAt, corruptKind, idx, out, raised, response>>
    /\ UNCHANGED notZip

\* line 207 raising: the exception leaves the with block, which closes the
\* output archive in its local buffer, and leaves process_epub
EpubReadFails ==
    /\ zipPc = "loop"
    /\ idx <= Len(entries)
    /\ ReadIndex(entries, idx) = corruptAt
    /\ raised' = corruptKind
    /\ zipPc' = "raised"
    /\ UNCHANGED <<structValid, entries, corruptAt, corruptKind, idx, out, returned, response>>
    /\ UNCHANGED notZip

\* lines 206-223: one entry read, rewritten if HTML, and written
EpubEntry ==
    /\ zipPc = "loop"
    /\ idx <= Len(entries)
    /\ ReadIndex(entries, idx) # corruptAt
    /\ out' = Append(out, WrittenEntry(entries, idx))
    /\ idx' = idx + 1
    /\ UNCHANGED <<structValid, entries, corruptAt, corruptKind, zipPc, raised, returned, response>>
    /\ UNCHANGED notZip

\* lines 225-226: after the loop the whole output buffer is returned
EpubReturn ==
    /\ zipPc = "loop"
    /\ idx > Len(entries)
    /\ returned' = [some |-> TRUE, entries |-> out]
    /\ zipPc' = "returned"
    /\ UNCHANGED <<structValid, entries, corruptAt, corruptKind, idx, out, raised, response>>
    /\ UNCHANGED notZip

\* lines 254-256: BadZipFile is answered with a message and a redirect
ConvertBadZip ==
    /\ zipPc = "raised"
    /\ raised = "BadZipFile"
    /\ response = "none"
    /\ response' = "redirect"
    /\ UNCHANGED <<structValid, entries, corruptAt, corruptKind, zipPc, idx, out, raised, returned>>
    /\ UNCHANGED notZip

\* lines 252-254: any other exception leaves convert as well
ConvertUnhandled ==
    /\ zipPc = "raised"
    /\ raised # "BadZipFile"
    /\ response = "none"
    /\ response' = "exception"
    /\ UNCHANGED <<structValid, entries, corruptAt, corruptKind, zipPc, idx, out, raised, returned>>
    /\ UNCHANGED notZip

\* lines 258-264
ConvertSendFile ==
    /\ zipPc = "returned"
    /\ response = "none"
    /\ response' = "file"
    /\ UNCHANGED <<structValid, entries, corruptAt, corruptKind, zipPc, idx, out, raised, returned>>
    /\ UNCHANGED notZip

ZipNext ==
    \/ EpubOpenFails
    \/ EpubOpen
    \/ EpubReadFails
    \/ EpubEntry
    \/ EpubReturn
    \/ ConvertBadZip
    \/ ConvertUnhandled
    \/ ConvertSendFile

SpecZip == ZipInit /\ [][ZipNext]_vars

-----------------------------------------------------------------------------
(* Claims about process_epub *)

CopiedFields ==
    {"date_time", "compress_type", "external_attr", "internal_attr", "create_system",
     "create_version", "extract_version", "volume", "comment", "extra"}

\* C1: for every valid archive, names distinct or not, and every position i
\* whose name is not an HTML name, the output entry at i has the input
\* entry's name, its payload and its copied metadata fields.
C1_NonHtmlUnchanged ==
    \A i \in 1..Len(out) :
        ~IsHtmlName(entries[i].filename) =>
            /\ out[i].filename = entries[i].filename
            /\ out[i].data = entries[i].data
            /\ \A f \in CopiedFields : out[i].meta[f] = entries[i].meta[f]

\* some read of the archive fails
SomeReadFails == \E i \in 1..Len(entries) : ReadIndex(entries, i) = corruptAt

Ended == zipPc \in {"raised", "returned"}

\* C7 as stated: a call on bytes that are no zip file, or in which a read
\* fails, ends in BadZipFile without returning anything, and bytes are
\* returned only after every entry was written.
C7_AllOrNothingBadZipFile ==
    /\ Ended /\ (~structValid \/ SomeReadFails) =>
          zipPc = "raised" /\ raised = "BadZipFile" /\ ~returned.some
    /\ returned.some => Len(returned.entries) = Len(entries)

\* C7 as amended: such a call ends in an exception (BadZipFile when the bytes
\* are no zip file; BadZipFile or another exception of the zip library when a
\* read fails) without returning anything; bytes are returned, and sent by
\* convert, only after every entry was written and no exception was raised.
C7_AllOrNothing ==
    /\ Ended /\ (~structValid \/ SomeReadFails) =>
          zipPc = "raised" /\ raised # "none" /\ ~returned.some
    /\ zipPc = "raised" /\ ~structValid => raised = "BadZipFile"
    /\ returned.some =>
          /\ zipPc = "returned" /\ raised = "none"
          /\ returned.entries = out
          /\ Len(returned.entries) = Len(entries)
    /\ response = "file" => returned.some

\* a read failed after an entry had been written to the output buffer
C7_Witness ==
    /\ zipPc = "raised"
    /\ Len(out) >= 1
    /\ Len(out) < Len(entries)
    /\ response = "exception"
    /\ ~returned.some

=============================================================================
